---- MODULE Spec2Model ----
(***************************************************************************)
(* Model of fdups: the generic worker pool (package pool) and the finder   *)
(* pipeline built on it (package finder).                                  *)
(*                                                                         *)
(* Goroutines of one Find() call:                                          *)
(*   find   the caller of Find (orchestrator)                              *)
(*   prod   the goroutine of walkDirectory running filepath.Walk           *)
(*   walk   runWalkGoroutine: ranges over prod's channel, submits tasks    *)
(*   wk     the pool's worker goroutines                                   *)
(*   coll   runCollectGoroutine                                            *)
(*   the anonymous goroutines that send EventAllTaskDone (publishers)      *)
(* All channels are unbuffered: a send and its receive are one joint step. *)
(*                                                                         *)
(* defaultWorkerPool.status is read by Submit and written by Start/Stop    *)
(* without synchronisation.  It is one machine word, loaded afresh by each *)
(* call of Submit, so a racing read returns the value before or the value  *)
(* after the write: both orders are interleavings of SubmitCheck with the  *)
(* step that writes.                                                       *)
(*                                                                         *)
(* A panic (send on the closed errorChannel) ends the process: no step is  *)
(* taken once panicked holds.                                              *)
(***************************************************************************)
EXTENDS Integers, Sequences, FiniteSets, Bags, TLC

(* ---- bounds ---- *)
\* entries visited by one walk (the root included)
MaxEntries == 3
\* largest workerCapacity
MaxWorkers == 2
\* calls a direct client of the pool makes
MaxClientOps == 5
\* calls of Find on one finder
MaxFinds == 2

(* ---- pool constants ---- *)
statusStopped == 0
statusStarted == 1
EventAllTaskDone == 0

(* ---- holders of taskCountLock ---- *)
Free == 0
Submitter == 0 - 1
Worker == 1

(* ---- error values: nil is the empty tuple ---- *)
Nil == <<>>
ErrWalk(p) == <<"error accessing path", p>>
ErrOpen(p) == <<"failed to open", p>>
ErrHash(p) == <<"failed to hash", p>>
ErrCancelled == <<"task cancelled", 0>>
ErrNotStarted == <<"no new tasks are accepted for stopped or paused worker pool", 0>>

(* ---- the file system under the target directory ---- *)
NameFlac == <<"s", ".", "F", "L", "A", "C">>
NameText == <<"n", ".", "t", "x", "t">>
Names == {NameFlac, NameText}
Contents == {1, 2}

DirEntry == [kind |-> "dir", name |-> NameText, content |-> 0, fault |-> "none"]
ErrEntry == [kind |-> "err", name |-> NameText, content |-> 0, fault |-> "none"]
\* files: a name acceptFlacFiles accepts and one it rejects, two contents, a
\* file that cannot be opened and one that cannot be hashed
FileEntries ==
  {[kind |-> "file", name |-> NameFlac, content |-> 1, fault |-> "none"],
   [kind |-> "file", name |-> NameText, content |-> 2, fault |-> "none"],
   [kind |-> "file", name |-> NameFlac, content |-> 1, fault |-> "open"],
   [kind |-> "file", name |-> NameText, content |-> 1, fault |-> "hash"]}
Entries == {DirEntry, ErrEntry} \cup FileEntries

\* The sequence of callbacks filepath.Walk makes: the root first; a root that
\* is a file is the only entry; the walk ends at the first entry with an error.
ValidDir(d) ==
  /\ Len(d) >= 1
  /\ (d[1].kind = "file" => Len(d) = 1)
  /\ \A i \in 1..Len(d) : (d[i].kind = "err" => i = Len(d))
  /\ \A i \in 2..Len(d) : d[1].kind = "dir"

Dirs == {d \in UNION {[1..n -> Entries] : n \in 1..MaxEntries} : ValidDir(d)}

VARIABLES
  dir,                \* the entries filepath.Walk visits, in order
  fileFilter,         \* baseFinder.fileFilter: "all" or "flac"
  workerCapacity,     \* defaultWorkerPool.workerCapacity
  status,             \* defaultWorkerPool.status
  taskCount,          \* defaultWorkerPool.taskCount
  submittingComplete, \* defaultWorkerPool.submittingComplete
  taskCountLock,      \* holder of defaultWorkerPool.taskCountLock, or Free
  taskCancelled,      \* taskContext is done
  workerCancelled,    \* workerContext is done
  wk,                 \* the bag of live worker goroutines, each a record of its
                      \* pc, the task it holds and the output it computed (the
                      \* goroutines are interchangeable: worker's id is unused)
  publishers,         \* goroutines blocked in eventChannel <- EventAllTaskDone
  result,             \* baseFinder.result
  find,               \* Find: pc, reports read, return values
  errClosed,          \* errorChannel has been closed
  prod,               \* filepath.Walk goroutine: pc, index of the next entry
  walk,               \* runWalkGoroutine: pc, item in hand, error to report,
                      \* what its last Submit returned
  coll,               \* runCollectGoroutine: pc, error to report
  client,             \* a direct user of the pool API (SpecPool only)
  panicked,           \* a goroutine panicked: the process is gone
  hist                \* history: what has happened so far

vars == <<dir, fileFilter, workerCapacity, status, taskCount, submittingComplete,
          taskCountLock, taskCancelled, workerCancelled, wk, publishers, result,
          find, errClosed, prod, walk, coll, client, panicked, hist>>

\* the states of the live worker goroutines
Workers == BagToSet(wk)

(* ---- pure functions ---- *)

\* strings.ToLower, on the characters that occur in Names
LowerChar(c) ==
  CASE c = "F" -> "f" [] c = "L" -> "l" [] c = "A" -> "a" [] c = "C" -> "c"
    [] OTHER -> c
ToLower(s) == [i \in 1..Len(s) |-> LowerChar(s[i])]

\* filepath.Ext: the suffix beginning at the final dot, "" if there is none
RECURSIVE ExtFrom(_, _)
ExtFrom(path, i) ==
  IF i < 1 THEN <<>>
  ELSE IF path[i] = "/" THEN <<>>
  ELSE IF path[i] = "." THEN SubSeq(path, i, Len(path))
  ELSE ExtFrom(path, i - 1)
Ext(path) == ExtFrom(path, Len(path))

acceptAllFiles(path) == TRUE
acceptFlacFiles(path) == ToLower(Ext(path)) = <<".", "f", "l", "a", "c">>
Filter(path) == IF fileFilter = "flac" THEN acceptFlacFiles(path) ELSE acceptAllFiles(path)

\* Hasher.Hash: a deterministic, injective digest of the content (as bytes)
Hash(content) == IF content = 1 THEN <<1, 16>> ELSE <<17, 0>>

\* fmt.Sprintf("%x", bytes): two lower-case hex digits per byte
HexDigit(n) == <<"0","1","2","3","4","5","6","7","8","9","a","b","c","d","e","f">>[n + 1]
RECURSIVE HexNoPad(_)
HexNoPad(bytes) ==
  IF bytes = <<>> THEN <<>>
  ELSE (IF Head(bytes) < 16 THEN <<HexDigit(Head(bytes))>>
        ELSE <<HexDigit(Head(bytes) \div 16), HexDigit(Head(bytes) % 16)>>)
       \o HexNoPad(Tail(bytes))
RECURSIVE Hex(_)
Hex(bytes) ==
  IF bytes = <<>> THEN <<>>
  ELSE <<HexDigit(Head(bytes) \div 16), HexDigit(Head(bytes) % 16)>> \o Hex(Tail(bytes))

\* FileInfo: Path is the index of the entry in dir, Hash is "" until computed
NewFileInfo(p) == [Path |-> p, Hash |-> <<>>]
NoFile == [Path |-> 0, Hash |-> <<>>]
NoOutput == [fileInfo |-> NoFile, err |-> Nil]

\* baseFinder.hashFile: (digest bytes, error)
hashFileOpensFirst(cancelled, fi) ==
  IF dir[fi.Path].fault = "open" THEN [hash |-> <<>>, err |-> ErrOpen(fi.Path)]
  ELSE IF cancelled THEN [hash |-> <<>>, err |-> ErrCancelled]
  ELSE IF dir[fi.Path].fault = "hash" THEN [hash |-> <<>>, err |-> ErrHash(fi.Path)]
  ELSE [hash |-> Hash(dir[fi.Path].content), err |-> Nil]
hashFile(cancelled, fi) ==
  IF cancelled THEN [hash |-> <<>>, err |-> ErrCancelled]
  ELSE IF dir[fi.Path].fault = "open" THEN [hash |-> <<>>, err |-> ErrOpen(fi.Path)]
  ELSE IF dir[fi.Path].fault = "hash" THEN [hash |-> <<>>, err |-> ErrHash(fi.Path)]
  ELSE [hash |-> Hash(dir[fi.Path].content), err |-> Nil]

\* the task function built by baseFinder.createHashFunction
HashTaskDropsRecord(cancelled, fi) ==
  LET r == hashFile(cancelled, fi) IN
  IF r.err # Nil THEN [fileInfo |-> NoFile, err |-> r.err]
  ELSE [fileInfo |-> [fi EXCEPT !.Hash = Hex(r.hash)], err |-> Nil]
HashTask(cancelled, fi) ==
  LET r == hashFile(cancelled, fi) IN
  IF r.err # Nil THEN [fileInfo |-> fi, err |-> r.err]
  ELSE [fileInfo |-> [fi EXCEPT !.Hash = Hex(r.hash)], err |-> Nil]

\* baseFinder.groupDuplicates on a map value
GroupOverwrite(res, fi) ==
  [k \in DOMAIN res \cup {fi.Hash} |-> IF k = fi.Hash THEN <<fi>> ELSE res[k]]
groupDuplicates(res, fi) ==
  [k \in DOMAIN res \cup {fi.Hash} |->
     IF k = fi.Hash
     THEN Append(IF k \in DOMAIN res THEN res[k] ELSE <<>>, fi)
     ELSE res[k]]

EmptyMap == <<>>

(* ---- initial state: after NewDefaultFinder / NewFlacFinder ---- *)

NewWorker == [pc |-> "select", fi |-> NoFile, out |-> NoOutput]
NoReturn == [err |-> Nil, mapNil |-> TRUE, map |-> EmptyMap]

InitPool ==
  /\ workerCapacity \in 1..MaxWorkers
  /\ status = statusStopped
  /\ taskCount = 0
  /\ submittingComplete = FALSE
  /\ taskCountLock = Free
  /\ taskCancelled = FALSE
  /\ workerCancelled = FALSE
  /\ wk = EmptyBag
  /\ publishers = 0

InitHist ==
  hist = [events |-> 0, reports |-> <<>>, accepted |-> {}, refused |-> {},
          errOut |-> FALSE, closedAtZero |-> FALSE, executed |-> {},
          consumed |-> {}, handed |-> {}, twice |-> FALSE]

Init ==
  /\ dir \in Dirs
  /\ fileFilter \in {"all", "flac"}
  /\ InitPool
  /\ result = EmptyMap
  /\ find = [pc |-> "idle", i |-> 0, ret |-> NoReturn, runs |-> 1]
  /\ errClosed = FALSE
  /\ prod = [pc |-> "idle", idx |-> 1]
  /\ walk = [pc |-> "idle", item |-> NoFile, err |-> Nil, rv |-> Nil]
  /\ coll = [pc |-> "idle", err |-> Nil]
  /\ client = [on |-> FALSE, ops |-> 0]
  /\ panicked = FALSE
  /\ InitHist

(* ---- pool operations ---- *)

\* defaultWorkerPool.Start
PoolStart ==
  IF status # statusStopped
  THEN UNCHANGED <<wk, status>>
  ELSE /\ wk' = wk (+) (NewWorker :> workerCapacity)
       /\ status' = statusStarted

\* defaultWorkerPool.Stop
PoolStop ==
  IF status # statusStarted
  THEN UNCHANGED <<taskCancelled, workerCancelled, status>>
  ELSE /\ taskCancelled' = TRUE
       /\ workerCancelled' = TRUE
       /\ status' = statusStopped

\* the guard of Submit: is the task accepted?
SubmitAcceptsAlways(st) == TRUE
SubmitAccepts(st) == st = statusStarted

\* the publish decision of CloseSubmit, after submittingComplete = true
CloseSubmitNeverPublishes(count) == FALSE
CloseSubmitPublishes(count) == count <= 0

\* the publish decision of a worker, after taskCount--
WorkerPublishesIgnoringClose(closed, count) == count <= 0
WorkerPublishes(closed, count) == closed /\ count <= 0

cfgVars == <<dir, fileFilter, workerCapacity>>
poolFlags == <<status, taskCancelled, workerCancelled>>
finderVars == <<result, find, errClosed, prod, coll>>

(* ---- the directory walk: walkDirectory, processWalkEntry ---- *)

\* baseFinder.processWalkEntry: what happens to one entry
processWalkEntrySkipErr(e) ==
  IF e.kind = "err" THEN "skip"
  ELSE IF e.kind = "dir" THEN "skip"
  ELSE IF ~Filter(e.name) THEN "skip"
  ELSE "yield"
processWalkEntryNoFilter(e) ==
  IF e.kind = "err" THEN "error"
  ELSE IF e.kind = "dir" THEN "skip"
  ELSE "yield"
processWalkEntry(e) ==
  IF e.kind = "err" THEN "error"
  ELSE IF e.kind = "dir" THEN "skip"
  ELSE IF ~Filter(e.name) THEN "skip"
  ELSE "yield"

\* a directory or a filtered file: the callback returns nil, no send
ProdSkip ==
  /\ ~panicked
  /\ prod.pc = "walk" /\ prod.idx <= Len(dir)
  /\ processWalkEntry(dir[prod.idx]) = "skip"
  /\ prod' = [prod EXCEPT !.idx = @ + 1]
  /\ UNCHANGED <<cfgVars, poolFlags, taskCount, submittingComplete, taskCountLock, wk,
                 publishers, result, find, errClosed, walk, coll, client, panicked, hist>>

\* channel <- walkDirectoryYield{...}, received by the range loop of
\* runWalkGoroutine; after an error the callback returns it and Walk ends
ProdYield ==
  /\ ~panicked
  /\ prod.pc = "walk" /\ prod.idx <= Len(dir)
  /\ walk.pc = "range"
  /\ LET a == processWalkEntry(dir[prod.idx]) IN
     /\ a \in {"error", "yield"}
     /\ IF a = "error"
        THEN /\ prod' = [prod EXCEPT !.idx = Len(dir) + 1]
             /\ walk' = [walk EXCEPT !.pc = "report", !.err = ErrWalk(prod.idx)]
             /\ hist' = hist
        ELSE /\ prod' = [prod EXCEPT !.idx = @ + 1]
             /\ walk' = [walk EXCEPT !.pc = "submit", !.item = NewFileInfo(prod.idx)]
             /\ hist' = hist
  /\ UNCHANGED <<cfgVars, poolFlags, taskCount, submittingComplete, taskCountLock, wk,
                 publishers, result, find, errClosed, coll, client, panicked>>

\* filepath.Walk returned: deferred close(channel)
ProdClose ==
  /\ ~panicked
  /\ prod.pc = "walk" /\ prod.idx > Len(dir)
  /\ prod' = [prod EXCEPT !.pc = "closed"]
  /\ UNCHANGED <<cfgVars, poolFlags, taskCount, submittingComplete, taskCountLock, wk,
                 publishers, result, find, errClosed, walk, coll, client, panicked, hist>>

\* the range loop of runWalkGoroutine ends: it goes on to CloseSubmit
WalkRangeEnd ==
  /\ ~panicked
  /\ walk.pc = "range" /\ prod.pc = "closed"
  /\ walk' = [walk EXCEPT !.pc = "closeLock"]
  /\ UNCHANGED <<cfgVars, poolFlags, taskCount, submittingComplete, taskCountLock, wk,
                 publishers, result, find, errClosed, prod, coll, client, panicked, hist>>

(* ---- Submit, as called by submitHashTask (or by the client) ---- *)

\* where the caller of a pool operation continues
AfterSubmit == IF client.on THEN "client" ELSE "range"
AfterCloseSubmit == IF client.on THEN "client" ELSE "report"

\* if w.status != statusStarted { return errors.New(...) }
SubmitCheck ==
  /\ ~panicked
  /\ walk.pc = "submit"
  /\ IF SubmitAccepts(status)
     THEN /\ walk' = [walk EXCEPT !.pc = "submitLock"]
          /\ hist' = hist
     ELSE /\ walk' = [walk EXCEPT !.pc = AfterSubmit, !.item = NoFile, !.rv = ErrNotStarted]
          /\ hist' = [hist EXCEPT !.refused = @ \cup {walk.item.Path}]
  /\ UNCHANGED <<cfgVars, poolFlags, taskCount, submittingComplete, taskCountLock, wk,
                 publishers, finderVars, client, panicked>>

\* w.taskCountLock.Lock()
SubmitLock ==
  /\ ~panicked
  /\ walk.pc = "submitLock" /\ taskCountLock = Free
  /\ taskCountLock' = Submitter
  /\ walk' = [walk EXCEPT !.pc = "submitInc"]
  /\ UNCHANGED <<cfgVars, poolFlags, taskCount, submittingComplete, wk,
                 publishers, finderVars, client, panicked, hist>>

\* w.taskCount++ of an accepted Submit
SubmitForgetsCount(count) == count
SubmitCounts(count) == count + 1

\* w.taskCount++; w.taskCountLock.Unlock()
SubmitInc ==
  /\ ~panicked
  /\ walk.pc = "submitInc"
  /\ taskCount' = SubmitCounts(taskCount)
  /\ taskCountLock' = Free
  /\ walk' = [walk EXCEPT !.pc = "submitSend"]
  /\ hist' = [hist EXCEPT !.accepted = @ \cup {walk.item.Path}]
  /\ UNCHANGED <<cfgVars, poolFlags, submittingComplete, wk,
                 publishers, finderVars, client, panicked>>

(* ---- CloseSubmit, as called by runWalkGoroutine (or by the client) ---- *)

CloseSubmitLock ==
  /\ ~panicked
  /\ walk.pc = "closeLock" /\ taskCountLock = Free
  /\ taskCountLock' = Submitter
  /\ walk' = [walk EXCEPT !.pc = "closeCrit"]
  /\ UNCHANGED <<cfgVars, poolFlags, taskCount, submittingComplete, wk,
                 publishers, finderVars, client, panicked, hist>>

\* submittingComplete = true; if taskCount <= 0 { go publish }; Unlock (deferred)
CloseSubmitCrit ==
  /\ ~panicked
  /\ walk.pc = "closeCrit"
  /\ submittingComplete' = TRUE
  /\ IF CloseSubmitPublishes(taskCount)
     THEN /\ publishers' = publishers + 1
          /\ hist' = [hist EXCEPT !.events = @ + 1, !.closedAtZero = TRUE]
     ELSE /\ publishers' = publishers
          /\ hist' = hist
  /\ taskCountLock' = Free
  /\ walk' = [walk EXCEPT !.pc = AfterCloseSubmit, !.err = Nil]
  /\ UNCHANGED <<cfgVars, poolFlags, taskCount, wk, finderVars, client, panicked>>

(* ---- defaultWorkerPool.worker ---- *)

\* one worker goroutine goes from state w to state w2
Step(w, w2) == (wk (-) SetToBag({w})) (+) SetToBag({w2})

\* case <-w.workerContext.Done(): return
WorkerExit(w) ==
  /\ ~panicked
  /\ w.pc = "select" /\ workerCancelled
  /\ wk' = wk (-) SetToBag({w})
  /\ UNCHANGED <<cfgVars, poolFlags, taskCount, submittingComplete, taskCountLock,
                 publishers, finderVars, walk, client, panicked, hist>>

\* the sender's side of a completed w.taskQueue <- task on the unbuffered
\* queue: the value has gone to the one receiver and Submit returns nil
SendCompleted(wlk) == [wlk EXCEPT !.pc = AfterSubmit, !.item = NoFile, !.rv = Nil]

\* case task := <-w.taskQueue, the other side of Submit's w.taskQueue <- task;
\* Submit then returns nil
WorkerRecv(w) ==
  /\ ~panicked
  /\ w.pc = "select" /\ walk.pc = "submitSend"
  /\ wk' = Step(w, [w EXCEPT !.pc = "exec", !.fi = walk.item])
  /\ walk' = SendCompleted(walk)
  /\ hist' = [hist EXCEPT !.handed = @ \cup {walk.item.Path}]
  /\ UNCHANGED <<cfgVars, poolFlags, taskCount, submittingComplete, taskCountLock,
                 publishers, finderVars, client, panicked>>

\* task.TaskFunction(w.taskContext, task.Input)
WorkerExecDropsError(w) ==
  /\ ~panicked
  /\ w.pc = "exec"
  /\ LET out == HashTask(taskCancelled, w.fi) IN
     /\ wk' = Step(w, IF out.err # Nil
                      THEN [w EXCEPT !.pc = "lock", !.fi = NoFile]
                      ELSE [w EXCEPT !.pc = "send", !.fi = NoFile, !.out = out])
     /\ hist' = [hist EXCEPT !.errOut = @ \/ out.err # Nil,
                             !.executed = @ \cup {w.fi.Path},
                             !.twice = @ \/ w.fi.Path \in hist.executed]
  /\ UNCHANGED <<cfgVars, poolFlags, taskCount, submittingComplete, taskCountLock,
                 publishers, finderVars, walk, client, panicked>>
WorkerExec(w) ==
  /\ ~panicked
  /\ w.pc = "exec"
  /\ LET out == HashTask(taskCancelled, w.fi) IN
     /\ wk' = Step(w, [w EXCEPT !.pc = "send", !.fi = NoFile, !.out = out])
     /\ hist' = [hist EXCEPT !.errOut = @ \/ out.err # Nil,
                             !.executed = @ \cup {w.fi.Path},
                             !.twice = @ \/ w.fi.Path \in hist.executed]
  /\ UNCHANGED <<cfgVars, poolFlags, taskCount, submittingComplete, taskCountLock,
                 publishers, finderVars, walk, client, panicked>>

\* w.taskCountLock.Lock()
WorkerLockNoWait(w) ==
  /\ ~panicked
  /\ w.pc = "lock"
  /\ taskCountLock' = Worker
  /\ wk' = Step(w, [w EXCEPT !.pc = "dec"])
  /\ UNCHANGED <<cfgVars, poolFlags, taskCount, submittingComplete,
                 publishers, finderVars, walk, client, panicked, hist>>
WorkerLock(w) ==
  /\ ~panicked
  /\ w.pc = "lock" /\ taskCountLock = Free
  /\ taskCountLock' = Worker
  /\ wk' = Step(w, [w EXCEPT !.pc = "dec"])
  /\ UNCHANGED <<cfgVars, poolFlags, taskCount, submittingComplete,
                 publishers, finderVars, walk, client, panicked, hist>>

\* w.taskCount--; if submittingComplete && taskCount <= 0 { go publish }; Unlock
WorkerDec(w) ==
  /\ ~panicked
  /\ w.pc = "dec"
  /\ taskCount' = taskCount - 1
  /\ IF WorkerPublishes(submittingComplete, taskCount - 1)
     THEN /\ publishers' = publishers + 1
          /\ hist' = [hist EXCEPT !.events = @ + 1]
     ELSE /\ publishers' = publishers
          /\ hist' = hist
  /\ taskCountLock' = Free
  /\ wk' = Step(w, [w EXCEPT !.pc = "select"])
  /\ UNCHANGED <<cfgVars, poolFlags, submittingComplete, finderVars, walk, client, panicked>>

(* ---- baseFinder.runCollectGoroutine ---- *)

\* case item := <-GetOutputChannel(), the other side of the worker's
\* w.outputChannel <- ...; an error is reported, a record is grouped
CollectOutput(w) ==
  /\ ~panicked
  /\ w.pc = "send" /\ coll.pc = "select"
  /\ wk' = Step(w, [w EXCEPT !.pc = "lock", !.out = NoOutput])
  /\ IF w.out.err # Nil
     THEN /\ coll' = [coll EXCEPT !.pc = "report", !.err = w.out.err]
          /\ result' = result
     ELSE /\ coll' = coll
          /\ result' = groupDuplicates(result, w.out.fileInfo)
  /\ hist' = [hist EXCEPT !.consumed = @ \cup {w.out.fileInfo.Path},
                          !.twice = @ \/ w.out.fileInfo.Path \in hist.consumed]
  /\ UNCHANGED <<cfgVars, poolFlags, taskCount, submittingComplete, taskCountLock,
                 publishers, find, errClosed, prod, walk, client, panicked>>

\* case event := <-GetEventChannel(), the other side of a publisher's send
CollectEvent ==
  /\ ~panicked
  /\ publishers > 0 /\ coll.pc = "select"
  /\ publishers' = publishers - 1
  /\ coll' = [coll EXCEPT !.pc = "report", !.err = Nil]
  /\ UNCHANGED <<cfgVars, poolFlags, taskCount, submittingComplete, taskCountLock,
                 wk, result, find, errClosed, prod, walk, client, panicked, hist>>

(* ---- baseFinder.Find and waitForCompletion ---- *)

\* Start the pool, make errorChannel, launch the two goroutines
FindStart ==
  /\ ~panicked
  /\ find.pc = "idle"
  /\ PoolStart
  /\ find' = [find EXCEPT !.pc = "wait"]
  /\ prod' = [prod EXCEPT !.pc = "walk"]
  /\ walk' = [walk EXCEPT !.pc = "range"]
  /\ coll' = [coll EXCEPT !.pc = "select"]
  /\ UNCHANGED <<cfgVars, taskCancelled, workerCancelled, taskCount, submittingComplete,
                 taskCountLock, publishers, result, errClosed, client, panicked, hist>>

\* one iteration of waitForCompletion's loop, having read err
waitForCompletionIgnoringErr(err) ==
  IF find.i + 1 >= 2
  THEN [find EXCEPT !.pc = "close", !.i = @ + 1,
                    !.ret = [err |-> Nil, mapNil |-> FALSE, map |-> result]]
  ELSE [find EXCEPT !.i = @ + 1]
waitForCompletion(err) ==
  IF err # Nil
  THEN [find EXCEPT !.pc = "close", !.ret = [err |-> err, mapNil |-> TRUE, map |-> EmptyMap]]
  ELSE IF find.i + 1 >= 2
  THEN [find EXCEPT !.pc = "close", !.i = @ + 1,
                    !.ret = [err |-> Nil, mapNil |-> FALSE, map |-> result]]
  ELSE [find EXCEPT !.i = @ + 1]

\* err := <-errorChannel, the other side of runWalkGoroutine's send
FindRecvWalk ==
  /\ ~panicked
  /\ find.pc = "wait" /\ walk.pc = "report"
  /\ find' = waitForCompletion(walk.err)
  /\ walk' = [walk EXCEPT !.pc = "done", !.err = Nil]
  /\ hist' = [hist EXCEPT !.reports = Append(@, <<"walk", walk.err>>)]
  /\ UNCHANGED <<cfgVars, poolFlags, taskCount, submittingComplete, taskCountLock, wk,
                 publishers, result, errClosed, prod, coll, client, panicked>>

\* err := <-errorChannel, the other side of runCollectGoroutine's send
FindRecvColl ==
  /\ ~panicked
  /\ find.pc = "wait" /\ coll.pc = "report"
  /\ find' = waitForCompletion(coll.err)
  /\ coll' = [coll EXCEPT !.pc = "done", !.err = Nil]
  /\ hist' = [hist EXCEPT !.reports = Append(@, <<"coll", coll.err>>)]
  /\ UNCHANGED <<cfgVars, poolFlags, taskCount, submittingComplete, taskCountLock, wk,
                 publishers, result, errClosed, prod, walk, client, panicked>>

\* deferred close(errorChannel)
FindClose ==
  /\ ~panicked
  /\ find.pc = "close"
  /\ errClosed' = TRUE
  /\ find' = [find EXCEPT !.pc = "stop"]
  /\ UNCHANGED <<cfgVars, poolFlags, taskCount, submittingComplete, taskCountLock, wk,
                 publishers, result, prod, walk, coll, client, panicked, hist>>

\* deferred stopWorkerPool(); Find has then returned
FindStop ==
  /\ ~panicked
  /\ find.pc = "stop"
  /\ PoolStop
  /\ find' = [find EXCEPT !.pc = "done"]
  /\ UNCHANGED <<cfgVars, taskCount, submittingComplete, taskCountLock, wk,
                 publishers, result, errClosed, prod, walk, coll, client, panicked, hist>>

\* errorChannel <- ... on the closed channel: panic (send on closed channel)
WalkSendClosed ==
  /\ ~panicked
  /\ walk.pc = "report" /\ errClosed
  /\ panicked' = TRUE
  /\ UNCHANGED <<cfgVars, poolFlags, taskCount, submittingComplete, taskCountLock, wk,
                 publishers, finderVars, walk, client, hist>>

CollSendClosed ==
  /\ ~panicked
  /\ coll.pc = "report" /\ errClosed
  /\ panicked' = TRUE
  /\ UNCHANGED <<cfgVars, poolFlags, taskCount, submittingComplete, taskCountLock, wk,
                 publishers, finderVars, walk, client, hist>>

Next ==
  \/ FindStart \/ FindRecvWalk \/ FindRecvColl \/ FindClose \/ FindStop
  \/ ProdSkip \/ ProdYield \/ ProdClose \/ WalkRangeEnd
  \/ SubmitCheck \/ SubmitLock \/ SubmitInc
  \/ CloseSubmitLock \/ CloseSubmitCrit
  \/ \E w \in Workers : WorkerExit(w)
  \/ \E w \in Workers : WorkerRecv(w)
  \/ \E w \in Workers : WorkerExec(w)
  \/ \E w \in Workers : WorkerLock(w)
  \/ \E w \in Workers : WorkerDec(w)
  \/ \E w \in Workers : CollectOutput(w)
  \/ CollectEvent
  \/ WalkSendClosed \/ CollSendClosed

Spec == Init /\ [][Next]_vars

(* ---- the pool used directly through the WorkerPool interface ---- *)

\* The client is one goroutine calling Start, Stop, Cancel, CloseSubmit and
\* Submit in any order; a second goroutine reads the output and event channels.
\* Tasks are hash tasks on the files of dir, each submitted at most once.
PoolDirs ==
  {d \in Dirs : /\ Len(d) = MaxEntries
                /\ \A i \in 2..Len(d) : d[i].kind = "file" /\ d[i].name = NameFlac}

InitClient ==
  /\ dir \in PoolDirs
  /\ fileFilter = "all"
  /\ InitPool
  /\ result = EmptyMap
  /\ find = [pc |-> "idle", i |-> 0, ret |-> NoReturn, runs |-> 1]
  /\ errClosed = FALSE
  /\ prod = [pc |-> "idle", idx |-> 1]
  /\ walk = [pc |-> "client", item |-> NoFile, err |-> Nil, rv |-> Nil]
  /\ coll = [pc |-> "idle", err |-> Nil]
  /\ client = [on |-> TRUE, ops |-> 0]
  /\ panicked = FALSE
  /\ InitHist

ClientReady == ~panicked /\ client.on /\ walk.pc = "client" /\ client.ops < MaxClientOps

ClientStart ==
  /\ ClientReady
  /\ PoolStart
  /\ client' = [client EXCEPT !.ops = @ + 1]
  /\ UNCHANGED <<cfgVars, taskCancelled, workerCancelled, taskCount, submittingComplete,
                 taskCountLock, publishers, finderVars, walk, panicked, hist>>

ClientStop ==
  /\ ClientReady
  /\ PoolStop
  /\ client' = [client EXCEPT !.ops = @ + 1]
  /\ UNCHANGED <<cfgVars, taskCount, submittingComplete, taskCountLock, wk,
                 publishers, finderVars, walk, panicked, hist>>

\* defaultWorkerPool.Cancel
ClientCancelAlsoStops ==
  /\ ClientReady
  /\ taskCancelled' = TRUE
  /\ workerCancelled' = TRUE
  /\ client' = [client EXCEPT !.ops = @ + 1]
  /\ UNCHANGED <<cfgVars, status, taskCount, submittingComplete,
                 taskCountLock, wk, publishers, finderVars, walk, panicked, hist>>
ClientCancel ==
  /\ ClientReady
  /\ taskCancelled' = TRUE
  /\ client' = [client EXCEPT !.ops = @ + 1]
  /\ UNCHANGED <<cfgVars, status, workerCancelled, taskCount, submittingComplete,
                 taskCountLock, wk, publishers, finderVars, walk, panicked, hist>>

ClientSubmit ==
  /\ ClientReady
  /\ \E p \in 2..Len(dir) :
       /\ p \notin hist.accepted \cup hist.refused
       /\ walk' = [walk EXCEPT !.pc = "submit", !.item = NewFileInfo(p)]
  /\ client' = [client EXCEPT !.ops = @ + 1]
  /\ UNCHANGED <<cfgVars, poolFlags, taskCount, submittingComplete, taskCountLock, wk,
                 publishers, finderVars, panicked, hist>>

ClientCloseSubmit ==
  /\ ClientReady
  /\ walk' = [walk EXCEPT !.pc = "closeLock"]
  /\ client' = [client EXCEPT !.ops = @ + 1]
  /\ UNCHANGED <<cfgVars, poolFlags, taskCount, submittingComplete, taskCountLock, wk,
                 publishers, finderVars, panicked, hist>>

\* <-pool.GetOutputChannel() by the reader
ConsumeOutput(w) ==
  /\ ~panicked /\ client.on
  /\ w.pc = "send"
  /\ wk' = Step(w, [w EXCEPT !.pc = "lock", !.out = NoOutput])
  /\ hist' = [hist EXCEPT !.consumed = @ \cup {w.out.fileInfo.Path},
                          !.twice = @ \/ w.out.fileInfo.Path \in hist.consumed]
  /\ UNCHANGED <<cfgVars, poolFlags, taskCount, submittingComplete, taskCountLock,
                 publishers, finderVars, walk, client, panicked>>

\* <-pool.GetEventChannel() by the reader
ConsumeEvent ==
  /\ ~panicked /\ client.on
  /\ publishers > 0
  /\ publishers' = publishers - 1
  /\ UNCHANGED <<cfgVars, poolFlags, taskCount, submittingComplete, taskCountLock,
                 wk, finderVars, walk, client, panicked, hist>>

NextPool ==
  \/ ClientStart \/ ClientStop \/ ClientCancel \/ ClientSubmit \/ ClientCloseSubmit
  \/ SubmitCheck \/ SubmitLock \/ SubmitInc
  \/ CloseSubmitLock \/ CloseSubmitCrit
  \/ \E w \in Workers : WorkerExit(w)
  \/ \E w \in Workers : WorkerRecv(w)
  \/ \E w \in Workers : WorkerExec(w)
  \/ \E w \in Workers : WorkerLock(w)
  \/ \E w \in Workers : WorkerDec(w)
  \/ \E w \in Workers : ConsumeOutput(w)
  \/ ConsumeEvent

SpecPool == InitClient /\ [][NextPool]_vars

(* ---- fairness: a goroutine that can take a step eventually takes one ---- *)

\* the steps of the goroutine running Find
FindSteps == FindStart \/ FindRecvWalk \/ FindRecvColl \/ FindClose \/ FindStop
\* the steps of runWalkGoroutine and of the filepath.Walk goroutine feeding it
WalkSteps ==
  \/ ProdSkip \/ ProdYield \/ ProdClose \/ WalkRangeEnd
  \/ SubmitCheck \/ SubmitLock \/ SubmitInc \/ CloseSubmitLock \/ CloseSubmitCrit
  \/ WalkSendClosed
\* the steps runCollectGoroutine takes on its own
CollectSteps == CollectEvent \/ CollSendClosed
\* the steps of the workers, the delivery of an Output and the return on
\* workerContext.Done() included
WorkerSteps ==
  \E w \in Workers :
    \/ WorkerRecv(w) \/ WorkerExec(w) \/ WorkerLock(w) \/ WorkerDec(w)
    \/ CollectOutput(w) \/ WorkerExit(w)

NonWorkerFairness == WF_vars(FindSteps) /\ WF_vars(WalkSteps) /\ WF_vars(CollectSteps)

WorkerFairness == WF_vars(WorkerSteps)

\* fair scheduling of all goroutines
FairSpec == Spec /\ NonWorkerFairness /\ WorkerFairness

\* fair scheduling of every goroutine but the workers, which may stall
FairSpecIdleWorkers == Spec /\ NonWorkerFairness

(* ---- definitions used by the properties ---- *)

FindReturned == find.pc = "done"
FindReturnedNil == FindReturned /\ find.ret.err = Nil

\* the records stored in a map value
MapFiles(m) == UNION {{m[k][i] : i \in 1..Len(m[k])} : k \in DOMAIN m}
AsSets(m) == [k \in DOMAIN m |-> {m[k][i] : i \in 1..Len(m[k])}]

\* the entries the walk reaches: all of them (an error entry is the last)
AcceptedEntry(i) == dir[i].kind = "file" /\ Filter(dir[i].name)
RECURSIVE SequentialFrom(_, _)
SequentialFrom(i, m) ==
  IF i > Len(dir) THEN m
  ELSE IF AcceptedEntry(i)
       THEN SequentialFrom(i + 1, groupDuplicates(m, HashTask(FALSE, NewFileInfo(i)).fileInfo))
       ELSE SequentialFrom(i + 1, m)
\* the map built when the accepted files are hashed and grouped one by one
SequentialResult == SequentialFrom(1, EmptyMap)

FirstNonNil(reports) ==
  LET idx == {i \in 1..Len(reports) : reports[i][2] # Nil} IN
  IF idx = {} THEN Nil ELSE reports[CHOOSE i \in idx : \A j \in idx : i <= j][2]

HasWalkError == \E i \in 1..Len(dir) : dir[i].kind = "err"
CleanScan == /\ ~HasWalkError
             /\ \A i \in 1..Len(dir) : AcceptedEntry(i) => dir[i].fault = "none"

(* ---- C1 ---- *)
\* C1: whenever Find has returned a nil error, exactly one EventAllTaskDone
\* has been published (one publisher goroutine was started), never zero and
\* never two, whichever of CloseSubmit and the last worker reached zero first.
C1_ExactlyOneCompletionEvent == FindReturnedNil => hist.events = 1

\* a successful scan whose event was published by a worker's decrement
C1_Witness == FindReturnedNil /\ hist.accepted # {} /\ ~hist.closedAtZero

(* ---- C2 ---- *)
\* C2: when Find returns a nil error, two files of the returned map are in the
\* same group iff their digests are equal, and every group is stored under the
\* digest string recorded in its members.
C2_GroupsByDigest ==
  FindReturnedNil =>
    /\ \A k \in DOMAIN find.ret.map : \A i \in 1..Len(find.ret.map[k]) :
         find.ret.map[k][i].Hash = k
    /\ \A k1 \in DOMAIN find.ret.map, k2 \in DOMAIN find.ret.map :
       \A i \in 1..Len(find.ret.map[k1]), j \in 1..Len(find.ret.map[k2]) :
         (k1 = k2) <=> (Hash(dir[find.ret.map[k1][i].Path].content)
                        = Hash(dir[find.ret.map[k2][j].Path].content))

\* a successful scan that returned two groups
C2_Witness == FindReturnedNil /\ Cardinality(DOMAIN find.ret.map) = 2

(* ---- C3 ---- *)
\* C3: after a first report that is an error the other goroutine can still
\* deliver its report: neither the walk goroutine nor the collector is ever at
\* its send on the completion-report channel once Find has closed the channel.
C3_NoSendAfterClose ==
  ~(errClosed /\ (walk.pc = "report" \/ coll.pc = "report"))

(* ---- C4 ---- *)
\* C4: if a hash task produced an Output with an error, then once Find has
\* returned, its error is non-nil and is the first non-nil report it read,
\* its map is nil, and the pool is Stopped.
C4_HashErrorAborts ==
  (FindReturned /\ hist.errOut) =>
    /\ find.ret.err # Nil
    /\ find.ret.err = FirstNonNil(hist.reports)
    /\ find.ret.mapNil
    /\ status = statusStopped

\* Find returned the collector's error after the walk had reported success
C4_Witness ==
  /\ FindReturned /\ hist.errOut /\ Len(hist.reports) = 2
  /\ hist.reports[1] = <<"walk", Nil>> /\ hist.reports[2][1] = "coll"

(* ---- C5 ---- *)
\* C5: if the traversal has an entry with an error, then once Find has
\* returned, its error is non-nil and its map is nil, however many tasks
\* were submitted, executing or grouped.
C5_WalkErrorAborts ==
  (FindReturned /\ HasWalkError) => (find.ret.err # Nil /\ find.ret.mapNil)

\* Find returned the traversal error after a record had been grouped
C5_Witness ==
  /\ FindReturned /\ HasWalkError /\ result # EmptyMap
  /\ find.ret.err = ErrWalk(Len(dir))

(* ---- C6 ---- *)
\* C6: in a scan with no traversal error and no failing hash task, under fair
\* scheduling Find eventually returns a nil error and the accumulated map,
\* for every worker count and directory: no goroutine blocks for ever.
C6_CleanScanReturns ==
  CleanScan => <>(FindReturnedNil /\ ~find.ret.mapNil /\ find.ret.map = result
                  /\ Cardinality(MapFiles(result)) = Cardinality(hist.accepted))

\* a clean scan of two files on the largest pool has returned
C6_Witness ==
  /\ FindReturnedNil /\ CleanScan /\ workerCapacity = MaxWorkers
  /\ Cardinality(MapFiles(find.ret.map)) >= 2

(* ---- C7 ---- *)
\* C7: the map of a successful scan, read as digest -> set of files, is the
\* map that hashing and grouping the accepted files one at a time produces,
\* whatever the number of workers and the order in which outputs arrived.
C7_ParallelismIndependent ==
  FindReturnedNil => AsSets(find.ret.map) = AsSets(SequentialResult)

\* several workers delivered a group in an order other than the walk's
C7_Witness ==
  /\ FindReturnedNil /\ workerCapacity >= 2
  /\ find.ret.map # SequentialResult

(* ---- C8 ---- *)
\* C8: every record handed to Submit, held by a worker, carried by an Output
\* or stored in the result is a file the filter accepted; directories and
\* rejected files are never executed and no reported error names them.
InFlightPaths ==
  {walk.item.Path} \cup {w.fi.Path : w \in Workers}
  \cup {w.out.fileInfo.Path : w \in Workers}
  \cup {f.Path : f \in MapFiles(result)} \cup {f.Path : f \in MapFiles(find.ret.map)}
  \cup hist.accepted \cup hist.refused \cup hist.executed
C8_OnlyAcceptedFiles ==
  /\ \A p \in InFlightPaths \ {0} : dir[p].kind = "file" /\ Filter(dir[p].name)
  /\ \A i \in 1..Len(hist.reports) :
       hist.reports[i][2] # Nil =>
         \/ hist.reports[i][2] = ErrCancelled
         \/ dir[hist.reports[i][2][2]].kind = "err"
         \/ AcceptedEntry(hist.reports[i][2][2])

\* a successful scan that skipped a rejected file and grouped an accepted one
C8_Witness ==
  /\ FindReturnedNil /\ find.ret.map # EmptyMap
  /\ \E i \in 1..Len(dir) : dir[i].kind = "file" /\ ~Filter(dir[i].name)

(* ---- C9 ---- *)
\* C9: once CloseSubmit is in its critical section with the counter at 0 and
\* the collector still selecting, Find returns a nil error (with an empty map
\* when no file was accepted) even if no worker ever takes another step: the
\* event is published by CloseSubmit itself.
C9_CloseSubmitAtZeroPublishes ==
  (walk.pc = "closeCrit" /\ taskCount = 0 /\ coll.pc = "select")
    ~> (FindReturnedNil /\ hist.closedAtZero /\ find.ret.map = result
        /\ (hist.accepted = {} => find.ret.map = EmptyMap))

\* a scan in which no file was accepted returned through CloseSubmit's event
C9_Witness ==
  /\ FindReturnedNil /\ hist.closedAtZero /\ hist.accepted = {}
  /\ hist.executed = {} /\ find.ret.map = EmptyMap

(* ---- C10 ---- *)
\* C10: a Submit that finds the pool not Started (never started, or stopped)
\* returns the error and changes neither the counter nor what the workers
\* hold; the task it was given is never executed and yields no Output.
PathsAtWorkers ==
  {w.fi.Path : w \in Workers} \cup {w.out.fileInfo.Path : w \in Workers}
C10_SubmitRejectedOutsideStarted ==
  /\ [][(walk.pc = "submit" /\ status # statusStarted /\ walk' # walk)
          => /\ walk'.pc = "client" /\ walk'.rv = ErrNotStarted
             /\ taskCount' = taskCount /\ wk' = wk /\ taskCountLock' = taskCountLock
             /\ walk.item.Path \in hist'.refused]_vars
  /\ [](hist.refused \cap (hist.accepted \cup hist.executed \cup hist.consumed
                          \cup PathsAtWorkers) = {})

\* a Submit was rejected by a pool that had been started and stopped again
C10_Witness ==
  /\ client.on /\ hist.refused # {} /\ walk.rv = ErrNotStarted
  /\ workerCancelled /\ status = statusStopped /\ walk.pc = "client"

(* ---- C11 ---- *)
\* the number of workers that hold task p or its Output, plus one if its
\* Output has been received from the output channel
TaskCopies(p) ==
  BagCardinality([w \in {v \in Workers : v.fi.Path = p \/ v.out.fileInfo.Path = p}
                    |-> CopiesIn(w, wk)])
  + (IF p \in hist.consumed THEN 1 ELSE 0)

\* a task handed to a worker is at every moment in exactly one place: with
\* one worker before execution, with that worker as its Output, or received
\* from the output channel; none is executed or delivered twice, and no
\* worker holds a task that no Submit handed over
TasksConserved ==
  /\ ~hist.twice
  /\ \A p \in hist.handed :
       /\ TaskCopies(p) = 1
       /\ p \in hist.executed <=> p \notin {w.fi.Path : w \in Workers}
       /\ p \in hist.consumed => p \in hist.executed
  /\ PathsAtWorkers \ {0} \subseteq hist.handed
  /\ hist.handed \subseteq hist.accepted

\* C11: every task that Submit accepted (counted in taskCount) is executed
\* by a worker, once and not twice, whatever Stop, Cancel and CloseSubmit do
\* meanwhile: once tasks are accepted, a moment comes at which all accepted
\* tasks have been executed (a process that panicked is left aside).
C11_AcceptedIsExecuted ==
  /\ []TasksConserved
  /\ (hist.accepted # {}) ~> (hist.accepted \subseteq hist.executed \/ panicked)

(* ---- C12 ---- *)
\* worker goroutines that have been launched and have not returned
LiveWorkers == BagCardinality(wk)

\* workers are launched only by a Start that finds the pool Stopped
StartOnStartedLaunchesNone ==
  [][LiveWorkers' > LiveWorkers
       => status = statusStopped /\ status' = statusStarted]_vars

\* the worker-scoped signal is fired, and the state left, only by a Stop
\* that finds the pool Started
StopOnStoppedChangesNothing ==
  [][(workerCancelled' # workerCancelled \/ (status = statusStarted /\ status' # status))
       => status = statusStarted /\ status' = statusStopped
          /\ taskCancelled' /\ workerCancelled']_vars

\* C12: Start on a Started pool launches no worker and Stop on a Stopped
\* pool changes nothing, and the number of live workers never exceeds the
\* configured capacity.
C12_StartStopIdempotent ==
  /\ StartOnStartedLaunchesNone
  /\ StopOnStoppedChangesNothing
  /\ [](LiveWorkers <= workerCapacity)

(* ---- C13 ---- *)
\* A later call of Find on the same finder: newBaseFinder made f.workerPool and
\* f.result once, so the call works on the pool and the map the earlier call
\* left behind; errorChannel and the two goroutines are new. The call is taken
\* once the goroutines of the earlier call have returned, as they have when
\* that call returned nil.
FindAgain ==
  /\ ~panicked
  /\ find.pc = "done" /\ find.runs < MaxFinds
  /\ walk.pc = "done" /\ coll.pc = "done" /\ prod.pc = "closed"
  /\ PoolStart
  /\ find' = [pc |-> "wait", i |-> 0, ret |-> NoReturn, runs |-> find.runs + 1]
  /\ errClosed' = FALSE
  /\ prod' = [pc |-> "walk", idx |-> 1]
  /\ walk' = [walk EXCEPT !.pc = "range"]
  /\ coll' = [coll EXCEPT !.pc = "select"]
  /\ UNCHANGED <<cfgVars, taskCancelled, workerCancelled, taskCount, submittingComplete,
                 taskCountLock, publishers, result, client, panicked, hist>>

NextTwice == Next \/ FindAgain

SpecTwice == Init /\ [][NextTwice]_vars

\* C13: whenever Find starts the pool, on the first and on any later call,
\* the pending-task counter is 0, submission is not closed, neither
\* cancellation signal has fired and the result map is empty.
C13_FindStartsFresh ==
  [][(find.pc \in {"idle", "done"} /\ find'.pc = "wait")
       => /\ taskCount = 0 /\ ~submittingComplete
          /\ ~taskCancelled /\ ~workerCancelled
          /\ result = EmptyMap]_vars

(* ---- C14 ---- *)
\* workers that have delivered an Output and not yet decremented for it
Undecremented ==
  BagCardinality([w \in {v \in Workers : v.pc \in {"lock", "dec"}} |-> CopiesIn(w, wk)])

\* C14: the pending-task counter is never negative; it equals the number of
\* accepted Submits minus the number of decrements, and a decrement happens
\* only for a task whose Output was delivered, each such task once.
C14_CounterNonNegative ==
  /\ taskCount >= 0
  /\ taskCount = Cardinality(hist.accepted) - (Cardinality(hist.consumed) - Undecremented)
  /\ Undecremented <= Cardinality(hist.consumed)

\* the counter is back at 0 after two tasks were submitted, executed,
\* delivered and decremented
C14_Witness ==
  /\ client.on /\ taskCount = 0 /\ Cardinality(hist.accepted) >= 2
  /\ hist.consumed = hist.accepted /\ Undecremented = 0

(* ---- C15 ---- *)
\* C15: a completion event is published only in a step that leaves
\* submission closed and the counter at 0, so never before CloseSubmit; a
\* worker's decrement while submission is open publishes nothing, and the
\* CloseSubmit that then finds the counter at 0 publishes the event itself.
C15_NoEventBeforeCloseSubmit ==
  /\ [][hist'.events > hist.events
          => /\ submittingComplete' /\ taskCount' = 0
             /\ hist'.events = hist.events + 1
             /\ publishers' = publishers + 1]_vars
  /\ [][(taskCount' < taskCount /\ ~submittingComplete)
          => hist'.events = hist.events /\ publishers' = publishers]_vars
  /\ [][(walk.pc = "closeCrit" /\ walk'.pc # "closeCrit" /\ taskCount = 0)
          => hist'.events = hist.events + 1 /\ hist'.closedAtZero]_vars
  /\ []((hist.events > 0 \/ publishers > 0) => submittingComplete)

\* the workers brought the counter to 0 while submission was open and
\* published nothing; the one event came from the later CloseSubmit
C15_Witness ==
  /\ client.on /\ hist.accepted # {} /\ hist.consumed = hist.accepted
  /\ taskCount = 0 /\ Undecremented = 0
  /\ hist.closedAtZero /\ hist.events = 1

(* ---- C16 ---- *)
\* the collector takes the completion event in this step
EventReceived ==
  coll.pc = "select" /\ coll'.pc = "report" /\ publishers' = publishers - 1

\* every accepted task has been executed and its Output received, and the
\* map holds exactly the accepted files
AllOutputsCollected ==
  /\ hist.consumed = hist.accepted /\ hist.executed = hist.accepted
  /\ PathsAtWorkers \subseteq {0}
  /\ walk.item = NoFile
  /\ {f.Path : f \in MapFiles(result)} = hist.accepted

\* C16: when the collector receives the completion event, and from then on,
\* the Output of every submitted task has been received: no task is with the
\* walk goroutine or a worker, no Output is undelivered, and the map (also
\* the one Find returns) holds every accepted file.
C16_EventAfterAllOutputs ==
  /\ [][EventReceived => AllOutputsCollected /\ AllOutputsCollected']_vars
  /\ []((\E i \in 1..Len(hist.reports) : hist.reports[i] = <<"coll", Nil>>)
          => AllOutputsCollected)
  /\ [](FindReturnedNil =>
          {f.Path : f \in MapFiles(find.ret.map)} = hist.accepted)

\* with two workers, the collector has received two Outputs and then the
\* event, which the last worker's decrement published
C16_Witness ==
  /\ coll.pc = "report" /\ coll.err = Nil /\ workerCapacity = 2
  /\ Cardinality(hist.consumed) = 2 /\ ~hist.closedAtZero /\ hist.events = 1

(* ---- C17 ---- *)
\* all positions <<digest, index>> of map m
AllPositions(m) ==
  {x \in (DOMAIN m) \X (1..MaxEntries) : x[2] <= Len(m[x[1]])}

\* the positions of map m at which the file of path p stands
Positions(m, p) == {x \in AllPositions(m) : m[x[1]][x[2]].Path = p}

\* the entries of dir that are files the filter accepts
AcceptedFiles == {i \in 1..Len(dir) : AcceptedEntry(i)}

\* C17: when Find has returned a nil error, every file the filter accepted
\* stands at exactly one position of the returned map, nothing else stands
\* in it, and the group sizes sum to the number of accepted files.
C17_EachAcceptedFileOnce ==
  FindReturnedNil =>
    /\ \A p \in AcceptedFiles : Cardinality(Positions(find.ret.map, p)) = 1
    /\ \A p \in (1..MaxEntries) \ AcceptedFiles : Positions(find.ret.map, p) = {}
    /\ Cardinality(AllPositions(find.ret.map)) = Cardinality(AcceptedFiles)
    /\ \A k \in DOMAIN find.ret.map : Len(find.ret.map[k]) <= MaxEntries

\* two accepted files with the same content were returned as one group of two
C17_Witness ==
  /\ FindReturnedNil /\ Cardinality(AcceptedFiles) = 2
  /\ \E k \in DOMAIN find.ret.map : Len(find.ret.map[k]) = 2

(* ---- C18 ---- *)
\* C18: once Stop has fired the worker-scoped signal, every worker goroutine
\* eventually returns, whether it was waiting in its select, executing a task
\* or sending an Output (a process that panicked is left aside).
C18_WorkersExitAfterStop ==
  workerCancelled ~> (LiveWorkers = 0 \/ panicked)

(* ---- C19 ---- *)
\* C19: a call of Cancel fires the task-scoped signal and changes nothing
\* else (status, counter, submission-closed flag, worker-scoped signal,
\* workers, pending events); no worker returns unless the worker-scoped
\* signal has fired; with the task signal fired a Started pool still accepts
\* a Submit, workers still take and execute tasks, and the decrement that
\* brings the counter to 0 after CloseSubmit still publishes the event.
C19_CancelOnlyTaskScope ==
  /\ [][ClientCancel
          => /\ taskCancelled'
             /\ status' = status /\ taskCount' = taskCount
             /\ submittingComplete' = submittingComplete
             /\ workerCancelled' = workerCancelled
             /\ wk' = wk /\ publishers' = publishers
             /\ taskCountLock' = taskCountLock]_vars
  /\ [][LiveWorkers' < LiveWorkers => workerCancelled]_vars
  /\ [][(taskCancelled /\ status = statusStarted /\ walk.pc = "submit" /\ walk' # walk)
          => walk'.pc = "submitLock"]_vars
  /\ [](\A w \in Workers :
          (taskCancelled /\ w.pc = "select" /\ walk.pc = "submitSend")
            => ENABLED WorkerRecv(w))
  /\ [](\A w \in Workers : (taskCancelled /\ w.pc = "exec") => ENABLED WorkerExec(w))
  /\ [][(taskCancelled /\ submittingComplete /\ taskCount = 1 /\ taskCount' = 0)
          => hist'.events = hist.events + 1 /\ publishers' = publishers + 1]_vars

\* Cancel was called and Stop was not: a task without fault was still
\* accepted, executed (ending in "task cancelled") and delivered, and the
\* worker's decrement after CloseSubmit published the event
C19_Witness ==
  /\ client.on /\ taskCancelled /\ ~workerCancelled /\ status = statusStarted
  /\ LiveWorkers = workerCapacity
  /\ submittingComplete /\ taskCount = 0 /\ hist.events = 1 /\ ~hist.closedAtZero
  /\ hist.errOut /\ hist.consumed # {} /\ \A p \in hist.consumed : dir[p].fault = "none"

(* ---- C20 ---- *)
\* a worker executes its task in this step
TaskExecuted == hist'.executed # hist.executed

\* C20: a task executed when the task-scoped signal has fired (by Cancel or
\* by Stop) yields the Output {the record as submitted, "task cancelled"}:
\* the digest stays empty, and a file that cannot be opened yields the same
\* error, so the file was not opened; no Output ever carries both the
\* cancellation error and a digest.
C20_CancelledTaskDoesNoIO ==
  /\ [][(TaskExecuted /\ taskCancelled)
          => \E w \in Workers :
               /\ w.pc = "exec" /\ w.fi.Hash = <<>>
               /\ wk' = Step(w, [pc |-> "send", fi |-> NoFile,
                                 out |-> [fileInfo |-> w.fi, err |-> ErrCancelled]])]_vars
  /\ [](\A w \in Workers : w.out.err = ErrCancelled => w.out.fileInfo.Hash = <<>>)
  /\ [](\A p \in 2..Len(dir) :
          /\ hashFile(TRUE, NewFileInfo(p)) = [hash |-> <<>>, err |-> ErrCancelled]
          /\ HashTask(TRUE, NewFileInfo(p)) = [fileInfo |-> NewFileInfo(p), err |-> ErrCancelled])

\* after Cancel alone, a worker holds the "task cancelled" Output of a file
\* that could not have been opened
C20_Witness ==
  /\ client.on /\ taskCancelled /\ ~workerCancelled
  /\ \E w \in Workers :
       /\ w.pc = "send" /\ w.out.err = ErrCancelled
       /\ dir[w.out.fileInfo.Path].fault = "open" /\ w.out.fileInfo.Hash = <<>>

(* ---- C21 ---- *)
\* C21: the pool treats a failed task like any other: whatever the task
\* function returned, error included, is put up for sending as the task's
\* Output and can be received; each decrement takes one off the counter and
\* publishes exactly when submission is closed and the counter is then 0;
\* the status and the two signals change only in a call the client makes.
C21_TaskErrorsNotInspected ==
  /\ [][TaskExecuted
          => \E w \in Workers :
               /\ w.pc = "exec"
               /\ wk' = Step(w, [pc |-> "send", fi |-> NoFile,
                                 out |-> HashTask(taskCancelled, w.fi)])]_vars
  /\ [](\A w \in Workers : w.pc = "send" => ENABLED ConsumeOutput(w))
  /\ [][taskCount' < taskCount
          => /\ taskCount' = taskCount - 1
             /\ hist'.events = hist.events
                  + (IF submittingComplete /\ taskCount' = 0 THEN 1 ELSE 0)]_vars
  /\ [][poolFlags' # poolFlags => client'.ops = client.ops + 1]_vars
  /\ [](hist.errOut /\ ~taskCancelled /\ ~workerCancelled /\ status = statusStarted
          => LiveWorkers = workerCapacity)

\* without Cancel or Stop, a task on a file that cannot be opened was executed,
\* its error Output was received, the counter came to 0 and the worker
\* published the event after CloseSubmit
C21_Witness ==
  /\ client.on /\ ~taskCancelled /\ ~workerCancelled /\ status = statusStarted
  /\ hist.errOut /\ hist.consumed = hist.accepted
  /\ \E p \in hist.consumed : dir[p].fault = "open"
  /\ submittingComplete /\ taskCount = 0 /\ Undecremented = 0
  /\ hist.events = 1 /\ ~hist.closedAtZero

(* ---- C22 ---- *)
\* runWalkGoroutine has received an item with an error: it is at its send
\* of that error, or Find has received the send
WalkFailed ==
  \/ walk.pc = "report" /\ walk.err # Nil
  \/ \E i \in 1..Len(hist.reports) :
       hist.reports[i][1] = "walk" /\ hist.reports[i][2] # Nil

\* runWalkGoroutine is in CloseSubmit or beyond it
WalkClosing ==
  \/ walk.pc \in {"closeLock", "closeCrit"}
  \/ walk.pc = "report" /\ walk.err = Nil
  \/ \E i \in 1..Len(hist.reports) : hist.reports[i] = <<"walk", Nil>>

\* reports Find has received from runWalkGoroutine
WalkReports == {i \in 1..Len(hist.reports) : hist.reports[i][1] = "walk"}

DigestOf(p) == Hex(Hash(dir[p].content))

\* the Output a worker is to produce for the record fi it holds
ExpectedOutput(fi) ==
  IF taskCancelled THEN [fileInfo |-> fi, err |-> ErrCancelled]
  ELSE IF dir[fi.Path].fault = "open" THEN [fileInfo |-> fi, err |-> ErrOpen(fi.Path)]
  ELSE IF dir[fi.Path].fault = "hash" THEN [fileInfo |-> fi, err |-> ErrHash(fi.Path)]
  ELSE [fileInfo |-> [Path |-> fi.Path, Hash |-> DigestOf(fi.Path)], err |-> Nil]

\* C23: a record is written at most once, by the worker that executes its
\* task: the record enters the execution with an empty digest and no task is
\* executed twice; on success the Output has no error and carries the record
\* with the hex digest of the file, on an open or hash failure (or a
\* cancellation) it carries the record unchanged, digest empty, with the
\* error; a record the collector has grouped keeps its place and its digest,
\* and no worker holds it any more.
C23_RecordWrittenOnce ==
  /\ [][TaskExecuted
          => \E w \in Workers :
               /\ w.pc = "exec" /\ w.fi.Hash = <<>>
               /\ wk' = Step(w, [pc |-> "send", fi |-> NoFile,
                                 out |-> ExpectedOutput(w.fi)])]_vars
  /\ [](~hist.twice)
  /\ [](\A w \in Workers :
          /\ w.fi.Hash = <<>>
          /\ w.out.err # Nil => w.out.fileInfo.Hash = <<>> /\ w.out.fileInfo.Path # 0
          /\ (w.pc = "send" /\ w.out.err = Nil)
               => w.out.fileInfo.Hash = DigestOf(w.out.fileInfo.Path)
                  /\ w.out.fileInfo.Hash # <<>>)
  /\ [](\A x \in AllPositions(result) :
          /\ result[x[1]][x[2]].Hash = x[1]
          /\ x[1] = DigestOf(result[x[1]][x[2]].Path)
          /\ result[x[1]][x[2]].Path \notin PathsAtWorkers)
  /\ [][\A x \in AllPositions(result) :
          x \in AllPositions(result') /\ result'[x[1]][x[2]] = result[x[1]][x[2]]]_vars

\* one record has been grouped under its digest while a worker holds the
\* error Output of a file that cannot be read, its digest still empty
C23_Witness ==
  /\ ~taskCancelled /\ AllPositions(result) # {}
  /\ \E w \in Workers :
       /\ w.pc = "send" /\ w.out.err # Nil /\ w.out.fileInfo.Hash = <<>>
       /\ dir[w.out.fileInfo.Path].fault # "none"

(* ---- C24 ---- *)
\* tasks a worker is executing or whose Output it has not yet delivered
TasksAtWorkers ==
  BagCardinality([w \in {v \in Workers : v.pc \in {"exec", "send"}} |-> CopiesIn(w, wk)])

\* C24: with workerCapacity workers and one submitter, at most
\* workerCapacity tasks are being executed or await the delivery of their
\* Output, the pending-task counter is at most workerCapacity + 1, and a
\* Submit that was accepted returns only in the step in which a worker
\* receives its task.
C24_Backpressure ==
  /\ [](TasksAtWorkers <= workerCapacity)
  /\ [](taskCount <= workerCapacity + 1)
  /\ [](taskCount = TasksAtWorkers + Undecremented
                      + (IF walk.pc = "submitSend" THEN 1 ELSE 0))
  /\ [][(walk.pc = "submitSend" /\ walk'.pc # "submitSend")
          => /\ walk.item.Path \in hist'.handed \ hist.handed
             /\ walk.item.Path \in {w.fi.Path : w \in BagToSet(wk')}
             /\ TasksAtWorkers' = TasksAtWorkers + 1
             /\ walk'.rv = Nil]_vars

(* ---- C25 ---- *)
\* workers between taskCountLock.Lock() and Unlock()
WorkersInSection ==
  BagCardinality([w \in {v \in Workers : v.pc = "dec"} |-> CopiesIn(w, wk)])

\* the caller of Submit or CloseSubmit is between Lock() and Unlock()
SubmitterInSection == walk.pc \in {"submitInc", "closeCrit"}

\* C25: the counter, the submission-closed flag and the publishing of the
\* event change only in a step of a goroutine that holds taskCountLock and
\* releases it at the end of that step, a worker's decrement and its
\* zero-check being one such step; at most one goroutine is between Lock and
\* Unlock at any time, and the lock is held exactly when one is.
C25_CounterUnderLock ==
  /\ [](WorkersInSection + (IF SubmitterInSection THEN 1 ELSE 0) <= 1)
  /\ [](/\ taskCountLock = Worker <=> WorkersInSection = 1
        /\ taskCountLock = Submitter <=> SubmitterInSection
        /\ taskCountLock \in {Free, Worker, Submitter})
  /\ [][(\/ taskCount' # taskCount
         \/ submittingComplete' # submittingComplete
         \/ hist'.events # hist.events)
          => taskCountLock # Free /\ taskCountLock' = Free]_vars
  /\ [][taskCount' < taskCount
          => /\ taskCountLock = Worker /\ WorkersInSection' = WorkersInSection - 1
             /\ publishers' = publishers
                  + (IF submittingComplete /\ taskCount' <= 0 THEN 1 ELSE 0)]_vars
  /\ [][taskCount' > taskCount \/ submittingComplete' # submittingComplete
          => taskCountLock = Submitter /\ ~SubmitterInSection']_vars

\* a worker is inside its decrement-and-check section while another worker
\* and the caller of CloseSubmit wait for the lock
C25_Witness ==
  /\ client.on /\ taskCountLock = Worker /\ WorkersInSection = 1
  /\ walk.pc = "closeLock"
  /\ \E w \in Workers : w.pc = "lock"

====
